---- MODULE Spec2Model ----
(***************************************************************************)
(* mantaray/commands.py: the dispatcher of the entry line of the IRC       *)
(* client.  handle_command(view, core, entry_content) is modelled as a     *)
(* state machine that runs one call from its first line to its return.     *)
(*                                                                         *)
(* A Python str is a sequence of one-character strings.  A text that the   *)
(* code only ever concatenates (a literal message, the ACTION marker) is   *)
(* kept as one multi-character fragment of such a sequence.                *)
(***************************************************************************)
EXTENDS Integers, Sequences, FiniteSets, TLC

\* ------------------------------------------------------------------------
\* Bounds of the model
\* ------------------------------------------------------------------------

\* Longest tail (in characters) appended to a head to form an input.
MaxTail == 4

\* Most parameter tokens of a usage string tried on add_command.
MaxParams == 3

\* ------------------------------------------------------------------------
\* Characters and the str methods the code uses
\* ------------------------------------------------------------------------

Lower ==
    {"a", "b", "c", "d", "e", "f", "g", "h", "i", "j", "k", "l", "m",
     "n", "o", "p", "q", "r", "s", "t", "u", "v", "w", "x", "y", "z"}

\* Characters str.split() (sep=None) treats as whitespace, among those modelled.
IsSpace(c) == c \in {" ", "\t", "\n", "\r"}

\* Line boundaries of str.splitlines(), among the characters modelled.
IsLineBreak(c) == c \in {"\n", "\r"}

\* "." as it would match with re.DOTALL.
IsDot_DotAll(c) == TRUE

\* What "." matches in a regular expression without re.DOTALL.
IsDot(c) == c # "\n"

\* None, the default of an optional parameter: no str equals it (every
\* character of a str is a one-character fragment).
None == <<"None">>

Min(a, b) == IF a < b THEN a ELSE b
Max(a, b) == IF a > b THEN a ELSE b

Drop(s, n) == SubSeq(s, n + 1, Len(s))

StartsWith(s, prefix) ==
    /\ Len(s) >= Len(prefix)
    /\ SubSeq(s, 1, Len(prefix)) = prefix

\* s.count(sub): the number of non-overlapping occurrences, left to right.
RECURSIVE Count(_, _)
Count(s, sub) ==
    IF Len(s) < Len(sub) THEN 0
    ELSE IF StartsWith(s, sub)
         THEN 1 + Count(Drop(s, Len(sub)), sub)
         ELSE Count(Drop(s, 1), sub)

\* s.lstrip(): leading whitespace removed.
RECURSIVE LStrip(_)
LStrip(s) ==
    IF s # <<>> /\ IsSpace(s[1]) THEN LStrip(Drop(s, 1)) ELSE s

\* Length of the leading run of non-whitespace characters of s.
RECURSIVE WordLen(_)
WordLen(s) ==
    IF s = <<>> \/ IsSpace(s[1]) THEN 0 ELSE 1 + WordLen(Drop(s, 1))

\* s.split(maxsplit=maxsplit) with sep=None; maxsplit = -1 is "no limit".
\* Runs of whitespace separate the words; once maxsplit splits are done the
\* rest, without its leading whitespace, is the last word (its inner and
\* trailing whitespace kept).
RECURSIVE Split(_, _)
Split(s, maxsplit) ==
    LET t == LStrip(s) IN
    IF t = <<>> THEN <<>>
    ELSE IF maxsplit = 0 THEN <<t>>
    ELSE LET n == WordLen(t) IN
         <<SubSeq(t, 1, n)>> \o Split(Drop(t, n), maxsplit - 1)

\* Length of the leading run of characters of s that are not line boundaries.
RECURSIVE LineLen(_)
LineLen(s) ==
    IF s = <<>> \/ IsLineBreak(s[1]) THEN 0 ELSE 1 + LineLen(Drop(s, 1))

\* s.splitlines(): the lines without their boundaries; "\r\n" is one
\* boundary; a boundary at the very end opens no further line.
RECURSIVE SplitLinesOf(_)
SplitLinesOf(s) ==
    IF s = <<>> THEN <<>>
    ELSE LET n == LineLen(s)
             brk == IF n = Len(s) THEN 0
                    ELSE IF n + 1 < Len(s) /\ s[n + 1] = "\r" /\ s[n + 2] = "\n"
                         THEN 2
                         ELSE 1
         IN <<SubSeq(s, 1, n)>> \o SplitLinesOf(Drop(s, n + brk))

\* s.strip(chars): leading and trailing characters of the set chars removed.
RECURSIVE Strip(_, _)
Strip(s, chars) ==
    IF s # <<>> /\ s[1] \in chars THEN Strip(Drop(s, 1), chars)
    ELSE IF s # <<>> /\ s[Len(s)] \in chars THEN Strip(SubSeq(s, 1, Len(s) - 1), chars)
    ELSE s

\* The leading run of lowercase letters of s has this length.
RECURSIVE LowerLen(_)
LowerLen(s) ==
    IF s = <<>> \/ s[1] \notin Lower THEN 0 ELSE 1 + LowerLen(Drop(s, 1))

\* re.fullmatch("/[a-z]+( .*)?", s)
IsCommandSyntax(s) ==
    /\ s # <<>>
    /\ s[1] = "/"
    /\ LET k == LowerLen(Drop(s, 1))
           rest == Drop(s, 1 + k)
       IN /\ k >= 1
          /\ IF rest = <<>> THEN TRUE
             ELSE /\ rest[1] = " "
                  /\ \A j \in 2..Len(rest) : IsDot(rest[j])

\* ------------------------------------------------------------------------
\* add_command and the registry _commands
\* ------------------------------------------------------------------------

\* s.split(" "): the pieces between single space characters.
RECURSIVE SplitOnSpace(_)
SplitOnSpace(s) ==
    LET n == CHOOSE k \in 0..Len(s) :
                 /\ \A j \in 1..k : s[j] # " "
                 /\ (k = Len(s) \/ s[k + 1] = " ")
    IN IF n = Len(s) THEN <<s>>
       ELSE <<SubSeq(s, 1, n)>> \o SplitOnSpace(Drop(s, n + 1))

IsIdent(s) == s # <<>> /\ \A j \in 1..Len(s) : s[j] \in Lower \cup {"_"}

\* "<[a-z_]+>"
IsRequiredToken(t) ==
    /\ Len(t) >= 3
    /\ t[1] = "<" /\ t[Len(t)] = ">"
    /\ IsIdent(SubSeq(t, 2, Len(t) - 1))

\* "\[<[a-z_]+>\]"
IsOptionalToken(t) ==
    /\ Len(t) >= 5
    /\ t[1] = "[" /\ t[Len(t)] = "]"
    /\ IsRequiredToken(SubSeq(t, 2, Len(t) - 1))

\* The grammar without the order of required and optional parameters:
\* r"/[a-z]+( <[a-z_]+>| \[<[a-z_]+>\])*"
UsageGrammar_AnyOrder(usage) ==
    LET p == SplitOnSpace(usage) IN
    /\ Len(p[1]) >= 2
    /\ p[1][1] = "/"
    /\ \A j \in 2..Len(p[1]) : p[1][j] \in Lower
    /\ \A j \in 2..Len(p) : IsRequiredToken(p[j]) \/ IsOptionalToken(p[j])

\* re.fullmatch(r"/[a-z]+( <[a-z_]+>)*( \[<[a-z_]+>\])*", usage)
UsageGrammar(usage) ==
    LET p == SplitOnSpace(usage) IN
    /\ Len(p[1]) >= 2
    /\ p[1][1] = "/"
    /\ \A j \in 2..Len(p[1]) : p[1][j] \in Lower
    /\ \E r \in 1..Len(p) :
          /\ \A j \in 2..r : IsRequiredToken(p[j])
          /\ \A j \in (r + 1)..Len(p) : IsOptionalToken(p[j])

\* add_command(usage)(func) applied to the registry cmds: the entry is keyed
\* by usage.split()[0], slash included.  A usage the assertion rejects stops
\* the import before do_it runs, so nothing is registered.
add_command(cmds, usage, func) ==
    IF ~UsageGrammar(usage) THEN cmds
    ELSE LET key == Split(usage, -1)[1] IN
         [k \in DOMAIN cmds \cup {key} |->
             IF k = key THEN [usage |-> usage, func |-> func] ELSE cmds[k]]

\* The decorators of _add_default_commands, in the order they are applied.
DefaultUsages ==
    << [usage |-> <<"/", "j", "o", "i", "n", " ", "<", "c", "h", "a", "n", "n", "e", "l", ">">>,
        func |-> "join"],
       [usage |-> <<"/", "p", "a", "r", "t", " ", "[", "<", "c", "h", "a", "n", "n", "e", "l", ">", "]">>,
        func |-> "part"],
       [usage |-> <<"/", "q", "u", "i", "t">>,
        func |-> "quit"],
       [usage |-> <<"/", "n", "i", "c", "k", " ", "<", "n", "e", "w", "_", "n", "i", "c", "k", ">">>,
        func |-> "nick"],
       [usage |-> <<"/", "t", "o", "p", "i", "c", " ", "<", "n", "e", "w", "_", "t", "o", "p", "i", "c", ">">>,
        func |-> "topic"],
       [usage |-> <<"/", "m", "e", " ", "<", "m", "e", "s", "s", "a", "g", "e", ">">>,
        func |-> "me"],
       [usage |-> <<"/", "m", "s", "g", " ", "<", "n", "i", "c", "k", ">", " ", "<", "m", "e", "s", "s", "a", "g", "e", ">">>,
        func |-> "msg"],
       [usage |-> <<"/", "n", "i", "c", "k", "s", "e", "r", "v", " ", "<", "m", "e", "s", "s", "a", "g", "e", ">">>,
        func |-> "msg_nickserv"],
       [usage |-> <<"/", "n", "s", " ", "<", "m", "e", "s", "s", "a", "g", "e", ">">>,
        func |-> "msg_nickserv"],
       [usage |-> <<"/", "m", "e", "m", "o", "s", "e", "r", "v", " ", "<", "m", "e", "s", "s", "a", "g", "e", ">">>,
        func |-> "msg_memoserv"],
       [usage |-> <<"/", "m", "s", " ", "<", "m", "e", "s", "s", "a", "g", "e", ">">>,
        func |-> "msg_memoserv"] >>

RECURSIVE AddAll(_, _)
AddAll(cmds, regs) ==
    IF regs = <<>> THEN cmds
    ELSE AddAll(add_command(cmds, regs[1].usage, regs[1].func), Tail(regs))

\* The module-level dict after _add_default_commands() has run.
_commands == AddAll(<<>>, DefaultUsages)

\* ------------------------------------------------------------------------
\* Views, backend calls, _send_privmsg and the command handlers
\* ------------------------------------------------------------------------

ChannelView == [kind |-> "ChannelView", channel_name |-> <<"#", "x">>]
PMView == [kind |-> "PMView", other_nick |-> <<"b", "o", "b">>]
ServerView == [kind |-> "ServerView"]

Views == {ChannelView, PMView, ServerView}

\* One call of a method of IrcCore.
CoreCall(op, args) == [op |-> op, args |-> args]

\* What a function did: its calls on core and its view.add_message texts.
Effect(calls, msgs) == [calls |-> calls, msgs |-> msgs]

CantSendHere ==
    <<"You can't send messages here. Join a channel instead and send messages there.">>

\* _send_privmsg that stays silent in a view without send target.
_send_privmsg_Silent(v, message) ==
    IF v.kind = "ChannelView"
    THEN Effect(<<CoreCall("send_privmsg", <<v.channel_name, message>>)>>, <<>>)
    ELSE IF v.kind = "PMView"
    THEN Effect(<<CoreCall("send_privmsg", <<v.other_nick, message>>)>>, <<>>)
    ELSE Effect(<<>>, <<>>)

_send_privmsg(v, message) ==
    IF v.kind = "ChannelView"
    THEN Effect(<<CoreCall("send_privmsg", <<v.channel_name, message>>)>>, <<>>)
    ELSE IF v.kind = "PMView"
    THEN Effect(<<CoreCall("send_privmsg", <<v.other_nick, message>>)>>, <<>>)
    ELSE Effect(<<>>, <<CantSendHere>>)

\* escape_message that escapes every text.
escape_message_Always(s) == <<"/">> \o s

\* escape_message(s)
escape_message(s) == IF StartsWith(s, <<"/">>) THEN <<"/">> \o s ELSE s

join(v, channel) == Effect(<<CoreCall("join_channel", <<channel>>)>>, <<>>)

\* part that prefers the current channel to its argument.
part_ViewFirst(v, channel) ==
    IF v.kind = "ChannelView"
    THEN Effect(<<CoreCall("part_channel", <<v.channel_name>>)>>, <<>>)
    ELSE IF channel # None
    THEN Effect(<<CoreCall("part_channel", <<channel>>)>>, <<>>)
    ELSE Effect(<<>>, << <<"Usage: /part [<channel>]">>,
                        <<"Channel is needed unless you are currently on a channel.">> >>)

part(v, channel) ==
    IF channel # None
    THEN Effect(<<CoreCall("part_channel", <<channel>>)>>, <<>>)
    ELSE IF v.kind = "ChannelView"
    THEN Effect(<<CoreCall("part_channel", <<v.channel_name>>)>>, <<>>)
    ELSE Effect(<<>>, << <<"Usage: /part [<channel>]">>,
                        <<"Channel is needed unless you are currently on a channel.">> >>)

quit(v) == Effect(<<CoreCall("quit", <<>>)>>, <<>>)

nick(v, new_nick) == Effect(<<CoreCall("change_nick", <<new_nick>>)>>, <<>>)

\* topic that takes any send target for a channel.
topic_AnyTarget(v, new_topic) ==
    IF v.kind = "ChannelView"
    THEN Effect(<<CoreCall("change_topic", <<v.channel_name, new_topic>>)>>, <<>>)
    ELSE IF v.kind = "PMView"
    THEN Effect(<<CoreCall("change_topic", <<v.other_nick, new_topic>>)>>, <<>>)
    ELSE Effect(<<>>, << <<"You must be on a channel to change its topic.">> >>)

topic(v, new_topic) ==
    IF v.kind = "ChannelView"
    THEN Effect(<<CoreCall("change_topic", <<v.channel_name, new_topic>>)>>, <<>>)
    ELSE Effect(<<>>, << <<"You must be on a channel to change its topic.">> >>)

\* The byte 0x01 that delimits a CTCP ACTION.
SOH == "\\x01"

\* me without the ACTION markers.
me_NoMarkers(v, message) == _send_privmsg(v, message)

me(v, message) == _send_privmsg(v, <<SOH, "ACTION ">> \o message \o <<SOH>>)

msg(v, nick_, message) == Effect(<<CoreCall("send_privmsg", <<nick_, message>>)>>, <<>>)

\* msg_nickserv that sends to the target of the view.
msg_nickserv_ToView(v, message) == _send_privmsg(v, message)

msg_nickserv(v, message) ==
    msg(v, <<"N", "i", "c", "k", "S", "e", "r", "v">>, message)

msg_memoserv(v, message) ==
    msg(v, <<"M", "e", "m", "o", "S", "e", "r", "v">>, message)

\* Parameter names as they appear in the def lines.
P_channel == <<"c", "h", "a", "n", "n", "e", "l">>
P_new_nick == <<"n", "e", "w", "_", "n", "i", "c", "k">>
P_new_topic == <<"n", "e", "w", "_", "t", "o", "p", "i", "c">>
P_message == <<"m", "e", "s", "s", "a", "g", "e">>
P_nick == <<"n", "i", "c", "k">>

\* The keyword parameters each handler declares after view and core:
\* those without a default and those with one.
Signature(func) ==
    CASE func = "join" -> [required |-> {P_channel}, optional |-> {}]
      [] func = "part" -> [required |-> {}, optional |-> {P_channel}]
      [] func = "quit" -> [required |-> {}, optional |-> {}]
      [] func = "nick" -> [required |-> {P_new_nick}, optional |-> {}]
      [] func = "topic" -> [required |-> {P_new_topic}, optional |-> {}]
      [] func = "me" -> [required |-> {P_message}, optional |-> {}]
      [] func = "msg" -> [required |-> {P_nick, P_message}, optional |-> {}]
      [] func = "msg_nickserv" -> [required |-> {P_message}, optional |-> {}]
      [] func = "msg_memoserv" -> [required |-> {P_message}, optional |-> {}]

\* The dict comprehension with the names as written in the usage string.
Kwargs_NoStrip(usage, args) ==
    LET names == Tail(Split(usage, -1)) IN
    [j \in 1..Min(Len(names), Len(args)) |-> [name |-> names[j], arg |-> args[j]]]

\* The dict comprehension of the call:
\*   {name.strip("[<>]"): arg for name, arg in zip(usage.split()[1:], args)}
\* as the sequence of its items.
Kwargs(usage, args) ==
    LET names == Tail(Split(usage, -1)) IN
    [j \in 1..Min(Len(names), Len(args)) |->
        [name |-> Strip(names[j], {"[", "<", ">", "]"}), arg |-> args[j]]]

KwNames(kwargs) == {kwargs[j].name : j \in 1..Len(kwargs)}

\* The value a keyword argument binds to its parameter; None (the default
\* of the def line) when the keyword is not passed.
KwGet(kwargs, name) ==
    IF name \in KwNames(kwargs)
    THEN kwargs[CHOOSE j \in 1..Len(kwargs) : kwargs[j].name = name].arg
    ELSE None

\* func(view, core, **kwargs) raises TypeError when a keyword is not a
\* parameter of func or a parameter without default gets no value.
RaisesTypeError(func, kwargs) ==
    \/ ~(KwNames(kwargs) \subseteq Signature(func).required \cup Signature(func).optional)
    \/ ~(Signature(func).required \subseteq KwNames(kwargs))

\* func(view, core, **kwargs) for a call that binds.
CallFunc(func, v, kwargs) ==
    CASE func = "join" -> join(v, KwGet(kwargs, P_channel))
      [] func = "part" -> part(v, KwGet(kwargs, P_channel))
      [] func = "quit" -> quit(v)
      [] func = "nick" -> nick(v, KwGet(kwargs, P_new_nick))
      [] func = "topic" -> topic(v, KwGet(kwargs, P_new_topic))
      [] func = "me" -> me(v, KwGet(kwargs, P_message))
      [] func = "msg" -> msg(v, KwGet(kwargs, P_nick), KwGet(kwargs, P_message))
      [] func = "msg_nickserv" -> msg_nickserv(v, KwGet(kwargs, P_message))
      [] func = "msg_memoserv" -> msg_memoserv(v, KwGet(kwargs, P_message))

\* ------------------------------------------------------------------------
\* One call handle_command(view, core, entry_content)
\* ------------------------------------------------------------------------

VARIABLES
    registry,        \* the module-level dict _commands
    pending,         \* the add_command decorators the import has yet to apply
    view,            \* the view argument
    entry_content,   \* the text argument
    pc,              \* where the call is
    usage,           \* local usage (line 55)
    func,            \* local func (line 55)
    args,            \* local args (line 64)
    invoked,         \* the calls func(view, core, **kwargs) made (lines 69-73)
    lines,           \* local lines (lines 77, 79)
    sent,            \* number of lines the for loop of line 97 has done
    core_calls,      \* the calls made on core, in order
    view_messages,   \* the texts passed to view.add_message, in order
    askyesno_calls,  \* the messagebox.askyesno dialogs shown, with their answers
    lookups,         \* the keys looked up in _commands
    result           \* "pending", then the returned "True" / "False"

vars == <<registry, pending, view, entry_content, pc, usage, func, args, invoked, lines, sent,
          core_calls, view_messages, askyesno_calls, lookups, result>>

\* Characters a tail is made of: a letter, a space, a tab, a line feed.
TailChars == {"a", " ", "\t", "\n"}

Tails == UNION {[1..n -> TailChars] : n \in 0..MaxTail}

\* What an input starts with: nothing, each registered command, and some
\* texts that are no command.
Heads ==
    DOMAIN _commands \cup
    { <<>>,
      <<"a">>,
      <<"/">>,
      <<"/", "/">>,
      <<"/", "/", "j", "o", "i", "n">>,
      <<"/", "J", "o", "i", "n">>,
      <<"/", "b", "o", "g", "u", "s">>,
      <<"/", "m", "s", "g", " ", "a">>,
      <<"/", "m", "s", "g", " ", "N", "i", "c", "k", "S", "e", "r", "v">>,
      <<"/", "m", "s", "g", " ", "M", "e", "m", "o", "S", "e", "r", "v">>,
      <<"/", "j", "o", "i", "n", " ", "a", "\r", "b">>,
      <<"a", "\r", "\n", "b">> }

Inputs == {h \o t : h \in Heads, t \in Tails}

Init ==
    /\ registry = _commands
    /\ pending = <<>>
    /\ view \in Views
    /\ entry_content \in Inputs
    /\ pc = "start"
    /\ usage = <<>>
    /\ func = "none"
    /\ args = <<>>
    /\ invoked = <<>>
    /\ lines = <<>>
    /\ sent = 0
    /\ core_calls = <<>>
    /\ view_messages = <<>>
    /\ askyesno_calls = <<>>
    /\ lookups = <<>>
    /\ result = "pending"

Return(value) ==
    /\ pc' = "done"
    /\ result' = value

\* Lines 50-51 left out: the empty text falls through to line 99.
ReturnEmpty_True ==
    /\ pc = "start"
    /\ entry_content = <<>>
    /\ Return("True")
    /\ UNCHANGED <<registry, pending, view, entry_content, usage, func, args,
                   invoked, lines, sent, core_calls, view_messages,
                   askyesno_calls, lookups>>

\* Lines 50-51: if not entry_content: return False
ReturnEmpty ==
    /\ pc = "start"
    /\ entry_content = <<>>
    /\ Return("False")
    /\ UNCHANGED <<registry, pending, view, entry_content, usage, func, args, invoked, lines, sent,
                   core_calls, view_messages, askyesno_calls, lookups>>

\* The text of lines 57-59 with the command name as the registry spells it.
UnknownCommandMessage_NoSlash(s) ==
    <<"No command named '">> \o Tail(Split(s, -1)[1]) \o <<"'">>

\* The text of lines 57-59.
UnknownCommandMessage(s) ==
    <<"No command named '">> \o Split(s, -1)[1] \o <<"'">>

\* Lines 53-60: the lookup raises KeyError.
UnknownCommand ==
    /\ pc = "start"
    /\ entry_content # <<>>
    /\ IsCommandSyntax(entry_content)
    /\ LET key == Split(entry_content, -1)[1] IN
       /\ key \notin DOMAIN registry
       /\ lookups' = Append(lookups, key)
       /\ view_messages' =
              Append(view_messages, UnknownCommandMessage(entry_content))
    /\ Return("False")
    /\ UNCHANGED <<registry, pending, view, entry_content, usage, func, args, invoked, lines, sent,
                   core_calls, askyesno_calls>>

\* The split of line 64 with one split too many.
SplitArgs_OneMore(s, u) == Tail(Split(s, Count(u, <<" ">>) + 1))

\* The split of line 64 without maxsplit.
SplitArgs_NoMaxsplit(s, u) == Tail(Split(s, -1))

\* Line 64: the words after the command name; the last one takes the rest
\* of the text.
SplitArgs(s, u) == Tail(Split(s, Max(Count(u, <<" ">>), 1)))

\* Lines 53-55 and 64: the lookup succeeds and the arguments are split off.
LookupCommand ==
    /\ pc = "start"
    /\ entry_content # <<>>
    /\ IsCommandSyntax(entry_content)
    /\ LET key == Split(entry_content, -1)[1] IN
       /\ key \in DOMAIN registry
       /\ lookups' = Append(lookups, key)
       /\ usage' = registry[key].usage
       /\ func' = registry[key].func
       /\ args' = SplitArgs(entry_content, registry[key].usage)
    /\ pc' = "arity"
    /\ UNCHANGED <<registry, pending, view, entry_content, invoked, lines, sent, core_calls,
                   view_messages, askyesno_calls, result>>

\* The condition of line 65 without its upper bound.
WrongArity_NoUpperBound(u, a) == Len(a) < Count(u, <<" ", "<">>)

\* The condition of line 65.
WrongArity(u, a) ==
    \/ Len(a) < Count(u, <<" ", "<">>)
    \/ Len(a) > Count(u, <<" ">>)

\* Lines 65-67
UsageError ==
    /\ pc = "arity"
    /\ WrongArity(usage, args)
    /\ view_messages' = Append(view_messages, <<"Usage: ">> \o usage)
    /\ Return("False")
    /\ UNCHANGED <<registry, pending, view, entry_content, usage, func, args, invoked, lines, sent,
                   core_calls, askyesno_calls, lookups>>

\* Lines 69-74: func is called with the keyword arguments; a call that does
\* not bind raises TypeError out of handle_command.
CallHandler ==
    /\ pc = "arity"
    /\ ~WrongArity(usage, args)
    /\ LET kwargs == Kwargs(usage, args) IN
       IF RaisesTypeError(func, kwargs)
       THEN /\ pc' = "raised"
            /\ UNCHANGED <<invoked, core_calls, view_messages, result>>
       ELSE /\ invoked' = Append(invoked, [func |-> func, kwargs |-> kwargs])
            /\ core_calls' = core_calls \o CallFunc(func, view, kwargs).calls
            /\ view_messages' = view_messages \o CallFunc(func, view, kwargs).msgs
            /\ Return("True")
    /\ UNCHANGED <<registry, pending, view, entry_content, usage, func, args, lines, sent,
                   askyesno_calls, lookups>>

\* Lines 76-79 without the escape rule.
PlainLines_NoEscape(s) == SplitLinesOf(s)

\* Lines 76-79 of the plain-text path.
PlainLines(s) ==
    IF StartsWith(s, <<"/", "/">>) THEN SplitLinesOf(Drop(s, 1)) ELSE SplitLinesOf(s)

\* The condition of line 81, off by one.
NeedsConfirmation_From3(ls) == Len(ls) >= 3

\* The condition of line 81.
NeedsConfirmation(ls) == Len(ls) > 3

\* Lines 76-81 with the dialog only for a view that has a send target.
SplitLines_TargetFirst ==
    /\ pc = "start"
    /\ entry_content # <<>>
    /\ ~IsCommandSyntax(entry_content)
    /\ lines' = PlainLines(entry_content)
    /\ pc' = IF NeedsConfirmation(lines') /\ view.kind \in {"ChannelView", "PMView"}
             THEN "askyesno" ELSE "send"
    /\ UNCHANGED <<registry, pending, view, entry_content, usage, func, args,
                   invoked, sent, core_calls, view_messages, askyesno_calls,
                   lookups, result>>

\* Lines 76-81: the text is no command; it is split and the line count tested.
SplitLines ==
    /\ pc = "start"
    /\ entry_content # <<>>
    /\ ~IsCommandSyntax(entry_content)
    /\ lines' = PlainLines(entry_content)
    /\ pc' = IF NeedsConfirmation(lines') THEN "askyesno" ELSE "send"
    /\ UNCHANGED <<registry, pending, view, entry_content, usage, func, args, invoked, sent,
                   core_calls, view_messages, askyesno_calls, lookups, result>>

\* The dialog of lines 83-93 without the test of line 94.
AskYesNo_IgnoresAnswer ==
    /\ pc = "askyesno"
    /\ \E answer \in BOOLEAN :
          askyesno_calls' =
              Append(askyesno_calls, [lines |-> Len(lines), answer |-> answer])
    /\ pc' = "send"
    /\ UNCHANGED <<registry, pending, view, entry_content, usage, func, args, invoked, lines, sent,
                   core_calls, view_messages, lookups, result>>

\* Lines 83-95: the dialog is shown and the user answers yes or no.
AskYesNo ==
    /\ pc = "askyesno"
    /\ \E answer \in BOOLEAN :
          /\ askyesno_calls' =
                 Append(askyesno_calls, [lines |-> Len(lines), answer |-> answer])
          /\ IF answer
             THEN pc' = "send" /\ UNCHANGED result
             ELSE Return("False")
    /\ UNCHANGED <<registry, pending, view, entry_content, usage, func, args, invoked, lines, sent,
                   core_calls, view_messages, lookups>>

\* Lines 97-98: one iteration of the for loop.
SendLine ==
    /\ pc = "send"
    /\ sent < Len(lines)
    /\ sent' = sent + 1
    /\ core_calls' = core_calls \o _send_privmsg(view, lines[sent + 1]).calls
    /\ view_messages' = view_messages \o _send_privmsg(view, lines[sent + 1]).msgs
    /\ UNCHANGED <<registry, pending, view, entry_content, pc, usage, func, args, invoked, lines,
                   askyesno_calls, lookups, result>>

\* Line 99: the loop is over.
ReturnTrue ==
    /\ pc = "send"
    /\ sent = Len(lines)
    /\ Return("True")
    /\ UNCHANGED <<registry, pending, view, entry_content, usage, func, args, invoked, lines, sent,
                   core_calls, view_messages, askyesno_calls, lookups>>

Next ==
    \/ ReturnEmpty
    \/ UnknownCommand
    \/ LookupCommand
    \/ UsageError
    \/ CallHandler
    \/ SplitLines
    \/ AskYesNo
    \/ SendLine
    \/ ReturnTrue

Spec == Init /\ [][Next]_vars

\* ------------------------------------------------------------------------
\* The import of the module: the add_command decorators run one by one
\* ------------------------------------------------------------------------

\* Command tokens and parameter tokens a tried usage string is made of,
\* well-formed ones and malformed ones.
UsageNames ==
    { <<"/", "x">>, <<"/", "x", "y">>, <<"/">>, <<"x">>, <<"/", "X">> }

UsageTokens ==
    { <<" ", "<", "a", ">">>,
      <<" ", "<", "a", "_", "b", ">">>,
      <<" ", "[", "<", "a", ">", "]">>,
      <<" ", "<", "A", ">">>,
      <<" ", "<", ">">>,
      <<"<", "a", ">">>,
      <<" ", "[", "a", "]">>,
      <<" ", " ", "<", "a", ">">> }

RECURSIVE Flatten(_)
Flatten(ss) == IF ss = <<>> THEN <<>> ELSE ss[1] \o Flatten(Tail(ss))

UsageShapes ==
    {<<name>> \o ts : name \in UsageNames,
                       ts \in UNION {[1..n -> UsageTokens] : n \in 0..MaxParams}}

UsageCandidates == {Flatten(sh) : sh \in UsageShapes}

RegInit ==
    /\ registry = <<>>
    /\ pending \in {DefaultUsages}
                    \cup {<<[usage |-> c, func |-> "candidate"]>> : c \in UsageCandidates}
    /\ pc = "import"
    /\ view = ServerView
    /\ entry_content = <<>>
    /\ usage = <<>>
    /\ func = "none"
    /\ args = <<>>
    /\ invoked = <<>>
    /\ lines = <<>>
    /\ sent = 0
    /\ core_calls = <<>>
    /\ view_messages = <<>>
    /\ askyesno_calls = <<>>
    /\ lookups = <<>>
    /\ result = "pending"

\* Lines 15-22: the assertion holds and do_it stores the entry.
Register ==
    /\ pc = "import"
    /\ pending # <<>>
    /\ UsageGrammar(pending[1].usage)
    /\ registry' = add_command(registry, pending[1].usage, pending[1].func)
    /\ pending' = Tail(pending)
    /\ UNCHANGED <<view, entry_content, pc, usage, func, args, invoked, lines, sent,
                   core_calls, view_messages, askyesno_calls, lookups, result>>

\* Line 16: the assertion fails and the import stops with AssertionError.
RejectUsage ==
    /\ pc = "import"
    /\ pending # <<>>
    /\ ~UsageGrammar(pending[1].usage)
    /\ pc' = "raised"
    /\ UNCHANGED <<registry, pending, view, entry_content, usage, func, args,
                   invoked, lines, sent, core_calls, view_messages,
                   askyesno_calls, lookups, result>>

\* Line 159 returns: every decorator was applied.
ImportDone ==
    /\ pc = "import"
    /\ pending = <<>>
    /\ pc' = "imported"
    /\ UNCHANGED <<registry, pending, view, entry_content, usage, func, args,
                   invoked, lines, sent, core_calls, view_messages,
                   askyesno_calls, lookups, result>>

RegNext ==
    \/ Register
    \/ RejectUsage
    \/ ImportDone

RegSpec == RegInit /\ [][RegNext]_vars

TypeOK ==
    /\ pc \in {"import", "imported", "start", "arity", "askyesno", "send", "done", "raised"}
    /\ result \in {"pending", "True", "False"}
    /\ sent \in 0..Len(lines)
    /\ (pc = "done") = (result # "pending")

\* ------------------------------------------------------------------------
\* Vocabulary of the properties
\* ------------------------------------------------------------------------

Upper ==
    {"A", "B", "C", "D", "E", "F", "G", "H", "I", "J", "K", "L", "M",
     "N", "O", "P", "Q", "R", "S", "T", "U", "V", "W", "X", "Y", "Z"}

\* The view has a send target.
CanSend(v) == v.kind \in {"ChannelView", "PMView"}

\* The send target of a channel view or PM view.
Target(v) == IF v.kind = "ChannelView" THEN v.channel_name ELSE v.other_nick

\* The call looked a command up in the registry.
OnCommandPath == lookups # <<>>

\* The call went past the classification without looking a command up.
OnPlainPath == pc # "start" /\ entry_content # <<>> /\ lookups = <<>>

\* The confirmation dialog was shown and answered no / yes.
Declined == askyesno_calls # <<>> /\ ~askyesno_calls[Len(askyesno_calls)].answer
Accepted == askyesno_calls # <<>> /\ askyesno_calls[Len(askyesno_calls)].answer

SendsOf(calls) == SelectSeq(calls, LAMBDA c : c.op = "send_privmsg")

\* ------------------------------------------------------------------------
\* C1
\* ------------------------------------------------------------------------

\* C1: plain text (not stopped by the confirmation dialog) handled in a view
\* that is neither a channel view nor a PM view returns False, sends nothing
\* and appends the "You can't send messages here..." message exactly once.
C1_NotSendableReturnsFalseOnce ==
    (pc = "done" /\ OnPlainPath /\ ~CanSend(view) /\ ~Declined) =>
        /\ result = "False"
        /\ core_calls = <<>>
        /\ view_messages = <<CantSendHere>>

\* ------------------------------------------------------------------------
\* C2
\* ------------------------------------------------------------------------

C3_SlashLettersWhitespace(s) ==
    \E k \in 1..(Len(s) - 1) :
        /\ s[1] = "/"
        /\ \A j \in 2..(k + 1) : s[j] \in Lower
        /\ (k + 1 = Len(s) \/ IsSpace(s[k + 2]))

\* A slash, one or more lowercase letters, then nothing or a space character
\* followed by text without line feed.
C3_SlashLettersSpace(s) ==
    \E k \in 1..(Len(s) - 1) :
        /\ s[1] = "/"
        /\ \A j \in 2..(k + 1) : s[j] \in Lower
        /\ \/ k + 1 = Len(s)
           \/ /\ s[k + 2] = " "
              /\ \A j \in (k + 3)..Len(s) : s[j] # "\n"

\* C3 as stated: a non-empty input takes the command path exactly when it is
\* a slash, letters, and then nothing or any whitespace character followed
\* by arbitrary text.
C3_ClassificationAnyWhitespace ==
    (pc # "start" /\ entry_content # <<>>) =>
        (OnCommandPath <=> C3_SlashLettersWhitespace(entry_content))

\* C3 (amended): a non-empty input takes the command path (registry lookup,
\* never split into lines or sent as it is) exactly when it is a slash, one or
\* more lowercase letters, and then nothing or a space character followed by
\* text without line feed; every other non-empty input, also one with a tab
\* or a line feed right after the command name, takes the plain-text path.
C3_Classification ==
    (pc # "start" /\ entry_content # <<>>) =>
        IF C3_SlashLettersSpace(entry_content)
        THEN /\ OnCommandPath
             /\ lines = <<>>
             /\ pc \notin {"askyesno", "send"}
             /\ askyesno_calls = <<>>
        ELSE /\ OnPlainPath
             /\ invoked = <<>>
             /\ func = "none"

\* "/join<TAB>a" typed on a channel went out as a message.
C3_Witness ==
    /\ pc = "done"
    /\ entry_content = <<"/", "j", "o", "i", "n", "\t", "a">>
    /\ view.kind = "ChannelView"
    /\ lookups = <<>>
    /\ core_calls = <<CoreCall("send_privmsg", <<view.channel_name, entry_content>>)>>

\* ------------------------------------------------------------------------
\* C4
\* ------------------------------------------------------------------------

\* The number of required and of optional parameter tokens of a usage string.
C4_Required(u) ==
    Cardinality({j \in 2..Len(SplitOnSpace(u)) : IsRequiredToken(SplitOnSpace(u)[j])})

C4_Optional(u) ==
    Cardinality({j \in 2..Len(SplitOnSpace(u)) : IsOptionalToken(SplitOnSpace(u)[j])})

\* C4: with min = required parameters and max = required + optional
\* parameters of the registered command, an input that yields n arguments
\* with n < min or n > max appends exactly one "Usage: <usage string>"
\* message, returns False, invokes no handler and makes no backend call;
\* with min <= n <= max the handler is invoked exactly once and the result
\* is True.
C4_ArityCheck ==
    (pc = "done" /\ func # "none") =>
        LET n == Len(args)
            min == C4_Required(usage)
            max == C4_Required(usage) + C4_Optional(usage)
        IN /\ usage = _commands[lookups[1]].usage
           /\ IF n < min \/ n > max
              THEN /\ view_messages = << <<"Usage: ">> \o usage >>
                   /\ result = "False"
                   /\ invoked = <<>>
                   /\ core_calls = <<>>
              ELSE /\ Len(invoked) = 1
                   /\ invoked[1].func = func
                   /\ result = "True"

\* "/quit a": one argument for a command that takes none.
C4_Witness ==
    /\ pc = "done"
    /\ func = "quit"
    /\ Len(args) = 1
    /\ result = "False"
    /\ view_messages = << <<"Usage: ", "/", "q", "u", "i", "t">> >>
    /\ core_calls = <<>>

\* ------------------------------------------------------------------------
\* C5
\* ------------------------------------------------------------------------

\* The declared parameter names of a usage string, in order.
C5_ParamNames(u) ==
    [j \in 1..(Len(SplitOnSpace(u)) - 1) |->
        LET t == SplitOnSpace(u)[j + 1] IN
        IF IsOptionalToken(t) THEN SubSeq(t, 3, Len(t) - 2)
        ELSE SubSeq(t, 2, Len(t) - 1)]

\* The positions where a whitespace-delimited word of s starts.
C5_WordStarts(s) ==
    {i \in 1..Len(s) : ~IsSpace(s[i]) /\ (i = 1 \/ IsSpace(s[i - 1]))}

C5_NthStart(s, j) ==
    CHOOSE i \in C5_WordStarts(s) :
        Cardinality({x \in C5_WordStarts(s) : x < i}) = j - 1

\* The j-th whitespace-delimited word of s.
C5_Word(s, j) ==
    LET b == C5_NthStart(s, j)
        e == CHOOSE x \in b..Len(s) :
                 /\ \A y \in b..x : ~IsSpace(s[y])
                 /\ (x = Len(s) \/ IsSpace(s[x + 1]))
    IN SubSeq(s, b, e)

\* All the text of s from its j-th word on.
C5_Rest(s, j) == SubSeq(s, C5_NthStart(s, j), Len(s))

\* C5: when a handler is invoked for a command with k >= 1 declared
\* parameters, the i-th word after the command name is bound to the i-th
\* parameter for i < k, the k-th parameter gets all the remaining text with
\* its spaces ("/topic a a" on #x issues exactly change_topic("#x", "a a")),
\* and an optional parameter without text is passed as absent, not as "".
C5_Binding ==
    /\ (pc = "done" /\ invoked # <<>>) =>
          LET kw == invoked[1].kwargs
              names == C5_ParamNames(usage)
              k == Len(names)
              n == Len(kw)
          IN /\ n <= k
             /\ \A j \in 1..n :
                   /\ kw[j].name = names[j]
                   /\ kw[j].arg # <<>>
                   /\ kw[j].arg # None
                   /\ j < k => kw[j].arg = C5_Word(entry_content, j + 1)
                   /\ j = k => kw[j].arg = C5_Rest(entry_content, j + 1)
             /\ \A j \in (n + 1)..k :
                   /\ IsOptionalToken(SplitOnSpace(usage)[j + 1])
                   /\ names[j] \notin KwNames(kw)
                   /\ Cardinality(C5_WordStarts(entry_content)) < j + 1
             /\ (func = "part" /\ n = 0 /\ view.kind = "ChannelView") =>
                   core_calls = <<CoreCall("part_channel", <<view.channel_name>>)>>
    /\ (/\ pc = "done"
        /\ entry_content = <<"/", "t", "o", "p", "i", "c", " ", "a", " ", "a">>
        /\ view.kind = "ChannelView") =>
          core_calls =
              <<CoreCall("change_topic", <<view.channel_name, <<"a", " ", "a">> >>)>>

\* "/msg a a a": nick is the first word, message the rest with its space.
C5_Witness ==
    /\ pc = "done"
    /\ entry_content = <<"/", "m", "s", "g", " ", "a", " ", "a", " ", "a">>
    /\ Len(invoked) = 1
    /\ Len(invoked[1].kwargs) = 2
    /\ core_calls = <<CoreCall("send_privmsg", << <<"a">>, <<"a", " ", "a">> >>)>>

\* ------------------------------------------------------------------------
\* C6
\* ------------------------------------------------------------------------

\* The text the plain-text path splits: one slash of a leading "//" removed.
C6_PlainText(s) ==
    IF Len(s) >= 2 /\ s[1] = "/" /\ s[2] = "/" THEN SubSeq(s, 2, Len(s)) ELSE s

\* The number of lines of a text: its line boundaries ("\r\n" counts once),
\* and one more for text after the last boundary.
C6_LineCount(t) ==
    Cardinality({i \in 1..Len(t) :
                    \/ t[i] = "\n"
                    \/ (t[i] = "\r" /\ ~(i < Len(t) /\ t[i + 1] = "\n"))})
    + (IF t # <<>> /\ ~IsLineBreak(t[Len(t)]) THEN 1 ELSE 0)

\* C6: the confirmation dialog is shown exactly once when the input takes
\* the plain-text path and has more than 3 lines, and never when it has 3
\* lines or fewer, on the command path or for empty input; it is never
\* shown once per line.
C6_PromptOnce ==
    /\ Len(askyesno_calls) <= 1
    /\ pc \in {"start", "arity", "askyesno"} => askyesno_calls = <<>>
    /\ pc \in {"send", "done", "raised"} =>
          (Len(askyesno_calls) = 1 <=>
              (OnPlainPath /\ C6_LineCount(C6_PlainText(entry_content)) > 3))
    /\ askyesno_calls # <<>> =>
          askyesno_calls[1].lines = C6_LineCount(C6_PlainText(entry_content))
    /\ OnPlainPath => Len(lines) = C6_LineCount(C6_PlainText(entry_content))

\* Four lines were sent after one dialog.
C6_Witness ==
    /\ pc = "done"
    /\ result = "True"
    /\ Len(lines) = 4
    /\ sent = 4
    /\ Len(core_calls) = 4
    /\ Len(askyesno_calls) = 1

\* ------------------------------------------------------------------------
\* C7
\* ------------------------------------------------------------------------

\* C7: plain text of 4 or more lines in a channel or PM view: nothing is
\* sent before the dialog is answered; declined, the call returns False and
\* nothing is sent; accepted, it returns True after exactly one send_privmsg
\* per line, in line order, each to the view's channel name or other nick.
C7_MultilineSend ==
    (OnPlainPath /\ CanSend(view) /\ Len(lines) >= 4) =>
        LET expected == [j \in 1..Len(lines) |->
                            CoreCall("send_privmsg", <<Target(view), lines[j]>>)]
        IN /\ pc = "askyesno" => core_calls = <<>>
           /\ core_calls # <<>> => Accepted
           /\ Declined => (pc = "done" /\ result = "False" /\ core_calls = <<>>)
           /\ Accepted => core_calls = SubSeq(expected, 1, sent)
           /\ (Accepted /\ pc = "done") => (result = "True" /\ core_calls = expected)
           /\ pc = "done" => (Declined \/ Accepted)
           /\ view_messages = <<>>

\* Accepted on a PM view: four sends to the other nick, in order.
C7_Witness ==
    /\ pc = "done"
    /\ view.kind = "PMView"
    /\ Accepted
    /\ result = "True"
    /\ Len(lines) = 4
    /\ lines[1] # lines[2]
    /\ core_calls = [j \in 1..4 |-> CoreCall("send_privmsg", <<view.other_nick, lines[j]>>)]

\* ------------------------------------------------------------------------
\* C8
\* ------------------------------------------------------------------------

\* The text of s up to its first whitespace character.
C8_FirstToken(s) ==
    SubSeq(s, 1, CHOOSE e \in 1..Len(s) :
                     /\ \A x \in 1..e : ~IsSpace(s[x])
                     /\ (e = Len(s) \/ IsSpace(s[e + 1])))

C8_RegisteredNames ==
    {C8_FirstToken(DefaultUsages[j].usage) : j \in 1..Len(DefaultUsages)}

\* C8: a command-path input whose first token is no registered command name
\* appends exactly one message "No command named '<token>'" (token as typed,
\* slash included), returns False, invokes no handler and makes no backend
\* call, in every view kind.
C8_UnknownCommand ==
    (OnCommandPath /\ C8_FirstToken(entry_content) \notin C8_RegisteredNames) =>
        /\ pc = "done"
        /\ result = "False"
        /\ view_messages =
              << <<"No command named '">> \o C8_FirstToken(entry_content) \o <<"'">> >>
        /\ view_messages[1][2] = "/"
        /\ invoked = <<>>
        /\ func = "none"
        /\ core_calls = <<>>

\* "/bogus a" on a view that is neither a channel nor a PM.
C8_Witness ==
    /\ pc = "done"
    /\ entry_content = <<"/", "b", "o", "g", "u", "s", " ", "a">>
    /\ view.kind = "ServerView"
    /\ result = "False"
    /\ view_messages = << <<"No command named '", "/", "b", "o", "g", "u", "s", "'">> >>

\* ------------------------------------------------------------------------
\* C9
\* ------------------------------------------------------------------------

\* C9: an input that starts with two slashes takes the plain-text path (no
\* registry lookup, no unknown-command or usage message, also for
\* "//join a"), and what is split into lines and sent is the input without
\* its first slash.
C9_EscapeRule ==
    (pc # "start" /\ Len(entry_content) >= 2
        /\ entry_content[1] = "/" /\ entry_content[2] = "/") =>
        /\ OnPlainPath
        /\ func = "none"
        /\ invoked = <<>>
        /\ \A j \in 1..Len(view_messages) : view_messages[j] = CantSendHere
        /\ lines = SplitLinesOf(Tail(entry_content))
        /\ lines[1][1] = "/"
        /\ (\A j \in 1..Len(entry_content) : ~IsLineBreak(entry_content[j])) =>
              lines = <<Tail(entry_content)>>
        /\ CanSend(view) =>
              core_calls = [j \in 1..sent |->
                               CoreCall("send_privmsg", <<Target(view), lines[j]>>)]
        /\ pc = "done" => (Declined \/ sent = Len(lines))

\* "//join a" on a channel was sent as the message "/join a".
C9_Witness ==
    /\ pc = "done"
    /\ entry_content = <<"/", "/", "j", "o", "i", "n", " ", "a">>
    /\ view.kind = "ChannelView"
    /\ result = "True"
    /\ core_calls = <<CoreCall("send_privmsg",
                               <<view.channel_name, <<"/", "j", "o", "i", "n", " ", "a">> >>)>>

\* ------------------------------------------------------------------------
\* C10
\* ------------------------------------------------------------------------

\* C10: handle_command never raises: the first token it indexes exists, the
\* loop stays within the lines, and what it returns is a boolean.  Whenever a
\* handler is about to be invoked or was invoked, the keyword arguments
\* contain every parameter without default of that handler and no name it
\* does not declare.
C10_NeverRaises ==
    /\ pc # "raised"
    /\ pc \in {"start", "arity", "askyesno", "send", "done"}
    /\ (pc = "start" /\ IsCommandSyntax(entry_content)) =>
          Split(entry_content, -1) # <<>>
    /\ pc = "send" => sent <= Len(lines)
    /\ pc = "done" => result \in {"True", "False"}
    /\ (pc = "arity" /\ ~WrongArity(usage, args)) =>
          LET names == KwNames(Kwargs(usage, args)) IN
          /\ names \subseteq Signature(func).required \cup Signature(func).optional
          /\ Signature(func).required \subseteq names
          /\ Cardinality(names) = Len(args)
    /\ \A j \in 1..Len(invoked) :
          LET names == KwNames(invoked[j].kwargs) IN
          /\ names \subseteq Signature(invoked[j].func).required
                             \cup Signature(invoked[j].func).optional
          /\ Signature(invoked[j].func).required \subseteq names

\* msg was called with both of its keyword arguments.
C10_Witness ==
    /\ pc = "done"
    /\ result = "True"
    /\ Len(invoked) = 1
    /\ invoked[1].func = "msg"
    /\ KwNames(invoked[1].kwargs) = {P_nick, P_message}

\* ------------------------------------------------------------------------
\* C11
\* ------------------------------------------------------------------------

\* C11: /part with a channel argument issues exactly part_channel(argument)
\* in every view kind; without argument it issues exactly
\* part_channel(channel_name) in a channel view, and in any other view it
\* makes no backend call and appends a usage error to the view.
C11_Part ==
    (pc = "done" /\ func = "part") =>
        /\ result = "True"
        /\ Len(invoked) = 1
        /\ IF Cardinality(C5_WordStarts(entry_content)) >= 2
           THEN /\ core_calls =
                      <<CoreCall("part_channel", <<C5_Rest(entry_content, 2)>>)>>
                /\ view_messages = <<>>
           ELSE IF view.kind = "ChannelView"
           THEN /\ core_calls = <<CoreCall("part_channel", <<view.channel_name>>)>>
                /\ view_messages = <<>>
           ELSE /\ core_calls = <<>>
                /\ view_messages =
                      << <<"Usage: /part [<channel>]">>,
                         <<"Channel is needed unless you are currently on a channel.">> >>

\* "/part a" typed on channel #x leaves a, not #x.
C11_Witness ==
    /\ pc = "done"
    /\ entry_content = <<"/", "p", "a", "r", "t", " ", "a">>
    /\ view.kind = "ChannelView"
    /\ core_calls = <<CoreCall("part_channel", << <<"a">> >>)>>

\* ------------------------------------------------------------------------
\* C12
\* ------------------------------------------------------------------------

\* C12: "/me <message>" in a channel or PM view issues exactly one
\* send_privmsg to the channel name or other nick whose body is the byte
\* 0x01, "ACTION ", the message, the byte 0x01; in any other view it makes no
\* backend call and appends the message plain text gets there.
C12_Me ==
    (pc = "done" /\ func = "me" /\ result = "True") =>
        LET message == C5_Rest(entry_content, 2) IN
        IF CanSend(view)
        THEN /\ view_messages = <<>>
             /\ Len(core_calls) = 1
             /\ core_calls[1].op = "send_privmsg"
             /\ core_calls[1].args[1] = Target(view)
             /\ LET body == core_calls[1].args[2] IN
                /\ Len(body) = Len(message) + 3
                /\ body[1] = SOH
                /\ body[2] = "ACTION "
                /\ SubSeq(body, 3, Len(body) - 1) = message
                /\ body[Len(body)] = SOH
        ELSE /\ core_calls = <<>>
             /\ view_messages = <<CantSendHere>>

\* "/me a a" in a PM view.
C12_Witness ==
    /\ pc = "done"
    /\ entry_content = <<"/", "m", "e", " ", "a", " ", "a">>
    /\ view.kind = "PMView"
    /\ core_calls =
          <<CoreCall("send_privmsg",
                     <<view.other_nick, <<SOH, "ACTION ", "a", " ", "a", SOH>> >>)>>

\* ------------------------------------------------------------------------
\* C14
\* ------------------------------------------------------------------------

\* C14: "/topic <new_topic>" issues exactly change_topic(channel_name,
\* new_topic) in a channel view; in a PM view or any other view it makes no
\* backend call and appends a "must be on a channel" message.
C14_Topic ==
    (pc = "done" /\ func = "topic" /\ result = "True") =>
        IF view.kind = "ChannelView"
        THEN /\ core_calls =
                   <<CoreCall("change_topic",
                              <<view.channel_name, C5_Rest(entry_content, 2)>>)>>
             /\ view_messages = <<>>
        ELSE /\ core_calls = <<>>
             /\ view_messages = << <<"You must be on a channel to change its topic.">> >>

\* "/topic a" in a PM view.
C14_Witness ==
    /\ pc = "done"
    /\ entry_content = <<"/", "t", "o", "p", "i", "c", " ", "a">>
    /\ view.kind = "PMView"
    /\ result = "True"
    /\ core_calls = <<>>
    /\ view_messages = << <<"You must be on a channel to change its topic.">> >>

\* ------------------------------------------------------------------------
\* C13
\* ------------------------------------------------------------------------

C13_Msg == <<"/", "m", "s", "g">>

\* The fixed nick of each alias.
C13_Aliases ==
    { [name |-> <<"/", "n", "s">>,
       nick |-> <<"N", "i", "c", "k", "S", "e", "r", "v">>],
      [name |-> <<"/", "n", "i", "c", "k", "s", "e", "r", "v">>,
       nick |-> <<"N", "i", "c", "k", "S", "e", "r", "v">>],
      [name |-> <<"/", "m", "s">>,
       nick |-> <<"M", "e", "m", "o", "S", "e", "r", "v">>],
      [name |-> <<"/", "m", "e", "m", "o", "s", "e", "r", "v">>,
       nick |-> <<"M", "e", "m", "o", "S", "e", "r", "v">>] }

\* What the command path returns and calls for the input e, a registered
\* command followed by nothing or by a space and text without line feed.
C13_Outcome(v, e) ==
    LET entry == _commands[C8_FirstToken(e)]
        a == SplitArgs(e, entry.usage)
    IN IF WrongArity(entry.usage, a)
       THEN [result |-> "False", calls |-> <<>>]
       ELSE [result |-> "True",
             calls |-> CallFunc(entry.func, v, Kwargs(entry.usage, a)).calls]

C15_GoodNames == { <<"/", "x">>, <<"/", "x", "y">> }
C15_GoodRequired == { <<" ", "<", "a", ">">>, <<" ", "<", "a", "_", "b", ">">> }
C15_GoodOptional == { <<" ", "[", "<", "a", ">", "]">> }

\* A shape is "/" + lowercase letters, then " <ident>" tokens, then
\* " [<ident>]" tokens, in that order.
C15_InGrammar(sh) ==
    /\ sh[1] \in C15_GoodNames
    /\ \A j \in 2..Len(sh) : sh[j] \in C15_GoodRequired \cup C15_GoodOptional
    /\ \A i, j \in 2..Len(sh) :
          (i < j /\ sh[i] \in C15_GoodOptional) => sh[j] \in C15_GoodOptional

\* Each tried usage string with what the grammar says about it.
C15_Verdicts == {<<Flatten(sh), C15_InGrammar(sh)>> : sh \in UsageShapes}

C15_DefaultNames ==
    { <<"/", "j", "o", "i", "n">>, <<"/", "p", "a", "r", "t">>,
      <<"/", "q", "u", "i", "t">>, <<"/", "n", "i", "c", "k">>,
      <<"/", "t", "o", "p", "i", "c">>, <<"/", "m", "e">>,
      <<"/", "m", "s", "g">>, <<"/", "n", "s">>,
      <<"/", "n", "i", "c", "k", "s", "e", "r", "v">>, <<"/", "m", "s">>,
      <<"/", "m", "e", "m", "o", "s", "e", "r", "v">> }

\* C15: add_command accepts a usage string exactly when it is "/" + lowercase
\* letters, then zero or more " <ident>", then zero or more " [<ident>]";
\* every usage string of the default command set is accepted and ends up in
\* the registry; a usage string with a required parameter after an optional
\* one is rejected at registration, before any input is dispatched.
C15_UsageGrammar ==
    /\ pc = "raised" =>
          /\ pending # <<>>
          /\ pending[1].func = "candidate"
          /\ <<pending[1].usage, FALSE>> \in C15_Verdicts
          /\ registry = <<>>
          /\ lookups = <<>>
          /\ result = "pending"
    /\ \A k \in DOMAIN registry :
          registry[k].func = "candidate" =>
              /\ <<registry[k].usage, TRUE>> \in C15_Verdicts
              /\ k \in C15_GoodNames
              /\ StartsWith(registry[k].usage, k)
    /\ pc = "imported" =>
          \/ \E k \in DOMAIN registry : registry[k].func = "candidate"
          \/ /\ DOMAIN registry = C15_DefaultNames
             /\ Cardinality(DOMAIN registry) = Len(DefaultUsages)
             /\ \A j \in 1..Len(DefaultUsages) :
                   \E k \in DOMAIN registry :
                       /\ registry[k] = DefaultUsages[j]
                       /\ StartsWith(DefaultUsages[j].usage, k)
             /\ registry = _commands
    /\ \A sh \in {<< <<"/", "x">>, <<" ", "[", "<", "a", ">", "]">>, <<" ", "<", "a", ">">> >>} :
          (pending # <<>> /\ pending[1].usage = Flatten(sh)) =>
              (pc \in {"import", "raised"} /\ registry = <<>>)

\* "/x [<a>] <a>" stopped the import.
C15_Witness ==
    /\ pc = "raised"
    /\ pending[1].usage =
          <<"/", "x", " ", "[", "<", "a", ">", "]", " ", "<", "a", ">">>
    /\ registry = <<>>

\* ------------------------------------------------------------------------
\* C16
\* ------------------------------------------------------------------------

\* C16: handle_command with the empty string returns False in every view
\* kind, makes no backend call, appends no message to the view and does not
\* show the confirmation dialog.
C16_EmptyInput ==
    (entry_content = <<>> /\ pc # "start") =>
        /\ pc = "done"
        /\ result = "False"
        /\ core_calls = <<>>
        /\ view_messages = <<>>
        /\ askyesno_calls = <<>>
        /\ lookups = <<>>
        /\ invoked = <<>>
        /\ lines = <<>>
        /\ sent = 0

\* The empty string was handled in a channel view.
C16_Witness ==
    /\ pc = "done"
    /\ entry_content = <<>>
    /\ view.kind = "ChannelView"
    /\ result = "False"

\* ------------------------------------------------------------------------
\* C17
\* ------------------------------------------------------------------------

\* C17: for a command that declares k >= 1 parameters the bounded split
\* never yields more than k arguments: further words stay in the last
\* argument, so only a command without parameters can get too many
\* arguments ("/quit a" gives a usage error, "/join a a" issues
\* join_channel("a a"), "/nick a a" issues change_nick("a a")).
C17_ExcessAbsorbed ==
    /\ (func # "none" /\ pc \in {"arity", "done"}) =>
          LET k == C4_Required(usage) + C4_Optional(usage)
              words == Cardinality(C5_WordStarts(entry_content)) - 1
          IN /\ k >= 1 => Len(args) = Min(words, k)
             /\ Len(args) > k =>
                   /\ k = 0
                   /\ pc = "done" =>
                         (result = "False" /\ invoked = <<>> /\ core_calls = <<>>)
             /\ (k >= 1 /\ words > k /\ pc = "done") =>
                   /\ result = "True"
                   /\ Len(invoked) = 1
                   /\ invoked[1].kwargs[k].arg = C5_Rest(entry_content, k + 1)
    /\ (pc = "done" /\ entry_content = <<"/", "j", "o", "i", "n", " ", "a", " ", "a">>) =>
          core_calls = <<CoreCall("join_channel", << <<"a", " ", "a">> >>)>>
    /\ (pc = "done" /\ entry_content = <<"/", "n", "i", "c", "k", " ", "a", " ", "a">>) =>
          core_calls = <<CoreCall("change_nick", << <<"a", " ", "a">> >>)>>
    /\ (pc = "done" /\ entry_content = <<"/", "q", "u", "i", "t", " ", "a">>) =>
          /\ result = "False"
          /\ core_calls = <<>>
          /\ view_messages = << <<"Usage: ", "/", "q", "u", "i", "t">> >>

\* "/join a a" joined the channel "a a".
C17_Witness ==
    /\ pc = "done"
    /\ entry_content = <<"/", "j", "o", "i", "n", " ", "a", " ", "a">>
    /\ Len(args) = 1
    /\ result = "True"
    /\ core_calls = <<CoreCall("join_channel", << <<"a", " ", "a">> >>)>>

\* ------------------------------------------------------------------------
\* C18
\* ------------------------------------------------------------------------

\* C18: an input that contains a line break is never dispatched as a
\* command: no lookup, no handler, no unknown-command or usage message;
\* every line, the first one with its slash included, goes to the view's
\* target as a plain message.
C18_LineBreakNeverCommand ==
    (/\ pc # "start"
     /\ \E j \in 1..Len(entry_content) : IsLineBreak(entry_content[j])) =>
        /\ OnPlainPath
        /\ func = "none"
        /\ invoked = <<>>
        /\ \A j \in 1..Len(view_messages) : view_messages[j] = CantSendHere
        /\ \A j \in 1..Len(core_calls) :
              /\ core_calls[j].op = "send_privmsg"
              /\ core_calls[j].args = <<Target(view), lines[j]>>

\* ------------------------------------------------------------------------
\* C19
\* ------------------------------------------------------------------------

\* The non-empty texts that escape_message turns into e.
C19_Originals(e) ==
    IF e = <<>> THEN {}
    ELSE {s \in {e, Tail(e)} : s # <<>> /\ escape_message(s) = e}

C20_PromptBeforeResolution ==
    LET n == C6_LineCount(C6_PlainText(entry_content)) IN
    /\ (OnPlainPath /\ pc \in {"send", "done"}) =>
          (askyesno_calls # <<>> <=> n > 3)
    /\ (OnPlainPath /\ pc = "askyesno") => n > 3
    /\ (OnPlainPath /\ ~CanSend(view) /\ n > 3) =>
          /\ core_calls = <<>>
          /\ pc = "askyesno" => (view_messages = <<>> /\ askyesno_calls = <<>>)
          /\ pc \in {"send", "done"} => Len(askyesno_calls) = 1
          /\ view_messages # <<>> => Accepted
          /\ Declined => (view_messages = <<>> /\ pc = "done" /\ result = "False")
          /\ Accepted =>
                /\ Len(view_messages) = sent
                /\ \A j \in 1..sent : view_messages[j] = CantSendHere
                /\ pc = "done" => sent = n

\* Four lines, no send target, accepted: nothing was sent.
C20_Witness ==
    /\ pc = "done"
    /\ view.kind = "ServerView"
    /\ Accepted
    /\ Len(lines) = 4
    /\ core_calls = <<>>
    /\ Len(view_messages) = 4

====
